---- MODULE Spec2Model ----
(***************************************************************************)
(* Model of the SQES quality-evaluation pipeline (package sqes):           *)
(*   - QCRepository (services/repository.py): the detail and analysis      *)
(*     tables and the check / delete / insert calls made on them;          *)
(*   - run_qc_analysis (analysis/qc_analyzer.py): the grading engine;      *)
(*   - process_station_data (workflows/station_processor.py): the worker;  *)
(*   - run_single_day (workflows/daily_processor.py): the day loop.        *)
(*                                                                         *)
(* One day (tgl) is modelled: every query of the repository is restricted  *)
(* to the rows of that day.  Every DBPool.execute call is one step whose   *)
(* outcome is either the result of the statement or None (the pool gave up *)
(* after its reconnect attempts and the statement had no effect).          *)
(*                                                                         *)
(* Two specifications: SpecWorker enters process_station_data directly, as *)
(* in a worker process that init_worker has set up; SpecDay follows        *)
(* run_single_day, where the dispatch through pool.map is modelled as the  *)
(* code performs it.  The configuration is taken to be valid: the set-up   *)
(* block of run_single_day and the DBPool constructor succeed.  The tables *)
(* carry no uniqueness constraint, as none is declared in the code.        *)
(*                                                                         *)
(* Real numbers are fixed-point integers: metric values with two decimals  *)
(* are held in hundredths ("centi"), scores in 1/10000.                    *)
(***************************************************************************)
EXTENDS Integers, Sequences, FiniteSets, TLC

(* ------------------------------ bounds --------------------------------- *)
\* number of DBPool.execute calls that may return None in one behaviour
MaxDbFail == 2
\* number of times the worker function is entered in one behaviour (SpecWorker)
MaxRuns == 2

(* ------------------------------ catalog -------------------------------- *)
\* station codes of the `stations` table used by the model
Stations == {"S1", "S2", "S3"}

\* channel_components of a station tuple, after split(','): S3 has no
\* channel, its channel_components string is '' and ''.split(',') is ['']
Comps(s) ==
  IF s = "S1" THEN <<"E", "N", "Z">> ELSE IF s = "S3" THEN <<"">> ELSE <<"Z">>

\* s.network of a station tuple
NetworkOf(s) == IF s = "S1" THEN "IA" ELSE "GE"

\* id_kode = f"{kode}_{ch}_{tgl}" (the day is fixed)
IdKode(kode, ch) == <<kode, ch>>

\* all ids of the detail table
Ids == UNION {{IdKode(s, Comps(s)[i]) : i \in 1..Len(Comps(s))} : s \in Stations}

VARIABLES
  dbType,      \* 'mysql' or 'postgresql' (basic_config['use_database'])
  stationsTbl, \* codes that have a row in the stations table
  details,     \* detail table: id_kode -> sequence of rows (insertion order)
  analysis,    \* analysis table: code -> sequence of rows
  dbFails,     \* number of execute calls that returned None so far
  env,         \* what the data sources and the metric kernels yield, per id_kode
  \* --- worker (process_station_data) ---
  wpc, wsta, wi, wcha, wbasic, wrow, wruns, wfails, invSource,
  \* --- run_qc_analysis ---
  qpc, qsta, qcaller, qrows,
  \* --- run_single_day ---
  dpc, run_trigger, flush, stations, network, data, data_stragglers,
  sidx, passes, flushCalled, handed, raisedBy,
  \* --- DBPool.execute / executemany / handle_error ---
  ppc, pmethod, pcommit, pstack, pharg, pattempts, ppool, pissued, prebuilds,
  presult, prelfails, pstart, psucceeded,
  \* --- the component loop and the aggregation of run_qc_analysis ---
  gpc, gdataqc, gi, gpercqc, gket, glog, gresult,
  \* --- the number of worker processes of a pass (run_single_day) ---
  npc, cpu_count, ndata, cpu_number_used, processes_req,
  \* --- RAMManager: the submission check and the phantom load ---
  rnow, ram_limit, phantom_tasks, rsubmitted, rsafe, rnext, real_used,
  \* --- run_processing_workflow: the date loop ---
  opc, start_date, end_date, dates_valid, oflush, current_date, processed, ofailed

wvars == <<wpc, wsta, wi, wcha, wbasic, wrow, wruns, wfails, invSource>>
qvars == <<qpc, qsta, qcaller, qrows>>
dvars == <<dpc, run_trigger, flush, stations, network, data, data_stragglers,
           sidx, passes, flushCalled, handed, raisedBy>>
tvars == <<details, analysis>>
cvars == <<dbType, stationsTbl, env>>
pvars == <<ppc, pmethod, pcommit, pstack, pharg, pattempts, ppool, pissued, prebuilds,
           presult, prelfails, pstart, psucceeded>>
gvars == <<gpc, gdataqc, gi, gpercqc, gket, glog, gresult>>
nvars == <<npc, cpu_count, ndata, cpu_number_used, processes_req>>
rvars == <<rnow, ram_limit, phantom_tasks, rsubmitted, rsafe, rnext, real_used>>
ovars == <<opc, start_date, end_date, dates_valid, oflush, current_date, processed, ofailed>>
xvars == <<pvars, gvars, nvars, rvars, ovars>>
\* what the pool calls, the grading loop and the process count leave alone
besidesPool == <<cvars, tvars, dbFails, wvars, qvars, dvars, gvars, nvars, rvars, ovars>>
besidesGrade == <<cvars, tvars, dbFails, wvars, qvars, dvars, pvars, nvars, rvars, ovars>>
besidesProcs == <<cvars, tvars, dbFails, wvars, qvars, dvars, pvars, gvars, rvars, ovars>>
besidesRam == <<cvars, tvars, dbFails, wvars, qvars, dvars, pvars, gvars, nvars, ovars>>
besidesFlow == <<cvars, tvars, dbFails, wvars, qvars, dvars, pvars, gvars, nvars, rvars>>
vars  == <<cvars, details, analysis, dbFails, wvars, qvars, dvars, xvars>>

(* ------------------------- DBPool.execute ------------------------------ *)
\* outcomes of one DBPool.execute call: the statement ran, or None came back
DbOutcomes == {"ok", "none"}

\* a call may return None only while the failure budget lasts
CanFail == dbFails < MaxDbFail

\* the failure counter after a call with outcome o
CountFail(o) == IF o = "none" THEN dbFails + 1 ELSE dbFails

(* ----------------------- metrics of a detail row ----------------------- *)
\* default basic metrics of log_default_and_continue
DefaultBasic == [rms |-> 0, ratioamp |-> 0, psdata |-> 0, ngap |-> 1, nover |-> 0,
                 num_spikes |-> 0]

\* two results of process_basic_metrics (centi units)
BasicGood == [rms |-> 500000, ratioamp |-> 101, psdata |-> 10000, ngap |-> 0,
              nover |-> 0, num_spikes |-> 0]
BasicFair == [rms |-> 10000, ratioamp |-> 150, psdata |-> 9500, ngap |-> 10,
              nover |-> 2, num_spikes |-> 30]

\* a result of process_basic_metrics with more than 2000 gaps
BasicGappy == [rms |-> 10000, ratioamp |-> 150, psdata |-> 9000, ngap |-> 2001,
               nover |-> 0, num_spikes |-> 0]

\* two results of process_ppsd_metrics (centi units)
PpsdGood == [pctH |-> 0, pctL |-> 0, dcl |-> 800, dcg |-> 0, long_period |-> 10000,
             microseism |-> 10000, short_period |-> 10000]
PpsdNoisy == [pctH |-> 2500, pctL |-> 500, dcl |-> 800, dcg |-> 0, long_period |-> 7000,
              microseism |-> 7000, short_period |-> 7000]

\* a default row whose linear_dead_channel is a live value (8.0)
DefaultRow_live_dcl(cha, metrics) ==
  [channel |-> cha, rms |-> metrics.rms, amplitude_ratio |-> metrics.ratioamp,
   availability |-> metrics.psdata, num_gap |-> metrics.ngap,
   num_overlap |-> metrics.nover, num_spikes |-> metrics.num_spikes,
   perc_above_nhnm |-> 10000, perc_below_nlnm |-> 0, linear_dead_channel |-> 800,
   gsn_dead_channel |-> 0, lp_percentage |-> 0, bw_percentage |-> 0,
   sp_percentage |-> 0]

\* the row insert_default_qc_detail writes: the given basic metrics and the
\* default PPSD values '100','0','0','0','0','0','0'
DefaultRow(cha, metrics) ==
  [channel |-> cha, rms |-> metrics.rms, amplitude_ratio |-> metrics.ratioamp,
   availability |-> metrics.psdata, num_gap |-> metrics.ngap,
   num_overlap |-> metrics.nover, num_spikes |-> metrics.num_spikes,
   perc_above_nhnm |-> 10000, perc_below_nlnm |-> 0, linear_dead_channel |-> 0,
   gsn_dead_channel |-> 0, lp_percentage |-> 0, bw_percentage |-> 0,
   sp_percentage |-> 0]

\* the row insert_qc_detail writes from all_metrics
FullRow(cha, metrics, final) ==
  [channel |-> cha, rms |-> metrics.rms, amplitude_ratio |-> metrics.ratioamp,
   availability |-> metrics.psdata, num_gap |-> metrics.ngap,
   num_overlap |-> metrics.nover, num_spikes |-> metrics.num_spikes,
   perc_above_nhnm |-> final.pctH, perc_below_nlnm |-> final.pctL,
   linear_dead_channel |-> final.dcl, gsn_dead_channel |-> final.dcg,
   lp_percentage |-> final.long_period, bw_percentage |-> final.microseism,
   sp_percentage |-> final.short_period]

\* tr.stats.channel of the acquired trace: prefix + component
ChannelCode(ch) == "BH" \o ch

NoRow == [channel |-> "-"]
NoBasic == [rms |-> -1]

(* --------------------------- grading engine ---------------------------- *)
\* DEFAULT_THRESHOLDS.  Values with decimals are in hundredths; gap_limit and
\* gap_margin (0.00274, 0.992) are in 1/100000; the score caps in 1/10000;
\* the weights in hundredths.
thresholds ==
  [rms_limit |-> 500000, ratioamp_limit |-> 101, gap_limit |-> 274,
   overlap_limit |-> 0, spike_limit |-> 0,
   rms_margin |-> 750000, ratioamp_margin |-> 202, gap_margin |-> 99200,
   overlap_margin |-> 125, spike_margin |-> 2500,
   pct_below_warn |-> 2000, pct_above_warn |-> 2000, gap_count_warn |-> 5,
   overlap_count_warn |-> 5, spike_count_warn |-> 25,
   avail_good |-> 9700, avail_fair |-> 6000, avail_min_for_noise_check |-> 1000,
   dcl_dead |-> 225, rms_damaged_max |-> 100,
   fair_max_score |-> 890000, poor_max_score |-> 590000,
   weight_noise |-> 35, weight_availability |-> 15, weight_rms |-> 10,
   weight_ratioamp |-> 10, weight_gaps |-> 10, weight_overlaps |-> 10,
   weight_spikes |-> 10]

\* 1500 * d / margin, computed without leaving 32-bit integers
GradeSlope(d, margin) ==
  IF margin % 100 = 0 THEN (15 * d) \div (margin \div 100)
                      ELSE (1500 * d) \div margin

\* grade = 100 - 15 * (value - threshold) / margin, clamped to [0, 100];
\* the result is in hundredths; value, threshold and margin share one unit
calculate_metric_grade(value, threshold, margin) ==
  LET d == value - threshold
  IN  IF d <= 0 THEN 10000
      ELSE IF d >= 100 * margin THEN 0
      ELSE IF 15 * d >= 100 * margin THEN 0
      ELSE 10000 - GradeSlope(d, margin)

\* the conditional message lists of determine_warning
WarnIf(cond, msg) == IF cond THEN <<msg>> ELSE <<>>

\* determine_warning without its two availability rules
determine_warning_no_avail(component, avail, pct_below, pct_above, ngap1, nover, num_spikes) ==
     WarnIf(pct_below > thresholds.pct_below_warn, "Cek metadata komponen " \o component)
  \o WarnIf(ngap1 > thresholds.gap_count_warn,
            "Terlalu banyak gap pada komponen " \o component)
  \o WarnIf(nover > thresholds.overlap_count_warn,
            "Terlalu banyak overlap pada komponen " \o component)
  \o WarnIf(pct_above > thresholds.pct_above_warn
              /\ avail >= thresholds.avail_min_for_noise_check,
            "Noise tinggi di komponen " \o component)
  \o WarnIf(num_spikes > thresholds.spike_count_warn,
            "Spike berlebihan pada komponen " \o component)

\* determine_warning: every matching rule fires, in this order
determine_warning(component, avail, pct_below, pct_above, ngap1, nover, num_spikes) ==
     WarnIf(pct_below > thresholds.pct_below_warn, "Cek metadata komponen " \o component)
  \o WarnIf(ngap1 > thresholds.gap_count_warn,
            "Terlalu banyak gap pada komponen " \o component)
  \o WarnIf(nover > thresholds.overlap_count_warn,
            "Terlalu banyak overlap pada komponen " \o component)
  \o WarnIf(pct_above > thresholds.pct_above_warn
              /\ avail >= thresholds.avail_min_for_noise_check,
            "Noise tinggi di komponen " \o component)
  \o WarnIf(num_spikes > thresholds.spike_count_warn,
            "Spike berlebihan pada komponen " \o component)
  \o WarnIf(avail < thresholds.avail_good /\ avail >= thresholds.avail_fair,
            "Availability rendah pada komponen " \o component)
  \o WarnIf(avail < thresholds.avail_fair /\ avail > 0,
            "Availability sangat rendah pada komponen " \o component)

\* check_qc: classification of a score (1/10000 units)
check_qc(score) ==
  IF score >= 900000 THEN "Baik"
  ELSE IF score >= 600000 THEN "Cukup Baik"
  ELSE IF score = 0 THEN "Mati"
  ELSE "Buruk"

\* a detail row as SELECT * returns it, columns in the order of the
\* insert_detail statement (1-based here, 0-based in the code)
qc_row_of(r) ==
  <<"id", "code", "date", r.channel, r.rms, r.amplitude_ratio, r.availability,
    r.num_gap, r.num_overlap, r.num_spikes, r.perc_above_nhnm, r.perc_below_nlnm,
    r.linear_dead_channel, r.gsn_dead_channel, r.lp_percentage, r.bw_percentage,
    r.sp_percentage>>

\* step 5 of run_qc_analysis, postgresql branch: the columns read by position
ParseRow(qc_row) ==
  [komp |-> qc_row[4], rms |-> qc_row[5], ratioamp |-> qc_row[6], avail |-> qc_row[7],
   ngap1 |-> qc_row[8], nover |-> qc_row[9], num_spikes |-> qc_row[10],
   pct_below |-> qc_row[11], pct_above |-> qc_row[12],
   dcl |-> qc_row[13], dcg |-> qc_row[14]]

\* min of two integers
Min(a, b) == IF a <= b THEN a ELSE b

\* steps 7 and 8 with the damaged-sensor rule tested before the unresponsive rule
ComponentScore_damaged_first(m) ==
  LET rms_grade == IF m.rms > thresholds.rms_damaged_max
                   THEN calculate_metric_grade(m.rms, thresholds.rms_limit,
                                               thresholds.rms_margin)
                   ELSE 0
      full      == m.avail >= 10000
      ngap1     == IF full THEN 0 ELSE m.ngap1
      avail     == IF full THEN 10000 ELSE m.avail
      ratioamp_grade == calculate_metric_grade(m.ratioamp, thresholds.ratioamp_limit,
                                               thresholds.ratioamp_margin)
      ngap_grade == calculate_metric_grade(ngap1 * 100000, thresholds.gap_limit,
                                           thresholds.gap_margin)
      nover_grade == calculate_metric_grade(m.nover * 100, thresholds.overlap_limit,
                                            thresholds.overlap_margin)
      num_spikes_grade == calculate_metric_grade(m.num_spikes * 100,
                                                 thresholds.spike_limit,
                                                 thresholds.spike_margin)
      pct_noise == 10000 - m.pct_above - m.pct_below
      weighted  == thresholds.weight_noise * pct_noise
                   + thresholds.weight_availability * avail
                   + thresholds.weight_rms * rms_grade
                   + thresholds.weight_ratioamp * ratioamp_grade
                   + thresholds.weight_gaps * ngap_grade
                   + thresholds.weight_overlaps * nover_grade
                   + thresholds.weight_spikes * num_spikes_grade
      warnings  == determine_warning(m.komp, avail, m.pct_below, m.pct_above,
                                     ngap1, m.nover, m.num_spikes)
      capped    == IF warnings = <<>> THEN weighted
                   ELSE IF avail < thresholds.avail_good /\ avail >= thresholds.avail_fair
                        THEN Min(weighted, thresholds.fair_max_score)
                   ELSE IF avail < thresholds.avail_fair /\ avail > 0
                        THEN Min(weighted, thresholds.poor_max_score)
                   ELSE weighted
  IN  IF avail <= 0
        THEN [botqc |-> 0, ket |-> <<"Komponen " \o m.komp \o " Mati">>]
      ELSE IF m.rms < thresholds.rms_damaged_max /\ m.rms > 0
        THEN [botqc |-> 10000, ket |-> <<"Komponen " \o m.komp \o " Rusak">>]
      ELSE IF m.dcg = 1 \/ m.dcl <= thresholds.dcl_dead
        THEN [botqc |-> 10000,
              ket |-> <<"Komponen " \o m.komp \o " tidak merespon getaran">>]
      ELSE [botqc |-> capped, ket |-> warnings]

\* steps 7 and 8 of run_qc_analysis for one parsed row: [botqc, ket]
ComponentScore(m) ==
  LET rms_grade == IF m.rms > thresholds.rms_damaged_max
                   THEN calculate_metric_grade(m.rms, thresholds.rms_limit,
                                               thresholds.rms_margin)
                   ELSE 0
      full      == m.avail >= 10000
      ngap1     == IF full THEN 0 ELSE m.ngap1
      avail     == IF full THEN 10000 ELSE m.avail
      ratioamp_grade == calculate_metric_grade(m.ratioamp, thresholds.ratioamp_limit,
                                               thresholds.ratioamp_margin)
      ngap_grade == calculate_metric_grade(ngap1 * 100000, thresholds.gap_limit,
                                           thresholds.gap_margin)
      nover_grade == calculate_metric_grade(m.nover * 100, thresholds.overlap_limit,
                                            thresholds.overlap_margin)
      num_spikes_grade == calculate_metric_grade(m.num_spikes * 100,
                                                 thresholds.spike_limit,
                                                 thresholds.spike_margin)
      pct_noise == 10000 - m.pct_above - m.pct_below
      weighted  == thresholds.weight_noise * pct_noise
                   + thresholds.weight_availability * avail
                   + thresholds.weight_rms * rms_grade
                   + thresholds.weight_ratioamp * ratioamp_grade
                   + thresholds.weight_gaps * ngap_grade
                   + thresholds.weight_overlaps * nover_grade
                   + thresholds.weight_spikes * num_spikes_grade
      warnings  == determine_warning(m.komp, avail, m.pct_below, m.pct_above,
                                     ngap1, m.nover, m.num_spikes)
      capped    == IF warnings = <<>> THEN weighted
                   ELSE IF avail < thresholds.avail_good /\ avail >= thresholds.avail_fair
                        THEN Min(weighted, thresholds.fair_max_score)
                   ELSE IF avail < thresholds.avail_fair /\ avail > 0
                        THEN Min(weighted, thresholds.poor_max_score)
                   ELSE weighted
  IN  IF avail <= 0
        THEN [botqc |-> 0, ket |-> <<"Komponen " \o m.komp \o " Mati">>]
      ELSE IF m.dcg = 1 \/ m.dcl <= thresholds.dcl_dead
        THEN [botqc |-> 10000,
              ket |-> <<"Komponen " \o m.komp \o " tidak merespon getaran">>]
      ELSE IF m.rms < thresholds.rms_damaged_max /\ m.rms > 0
        THEN [botqc |-> 10000, ket |-> <<"Komponen " \o m.komp \o " Rusak">>]
      ELSE [botqc |-> capped, ket |-> warnings]

\* the 'min' method: the lowest component score
aggregate_station_score_min(component_scores) ==
  SortSeq(component_scores, LAMBDA a, b : a < b)[1]

\* np.percentile(component_scores, 25), linear interpolation
aggregate_station_score(component_scores) ==
  LET srt == SortSeq(component_scores, LAMBDA a, b : a < b)
      n   == Len(srt)
      pos == 25 * (n - 1)
      k   == pos \div 100
      f   == pos % 100
  IN  IF f = 0 THEN srt[k + 1]
      ELSE srt[k + 1] + (f * (srt[k + 2] - srt[k + 1])) \div 100

\* the per-row results of the component loop, in row order
RECURSIVE ScoreRows(_)
ScoreRows(rows) ==
  IF rows = <<>> THEN <<>>
  ELSE <<ComponentScore(ParseRow(qc_row_of(Head(rows))))>> \o ScoreRows(Tail(rows))

\* percqc_list of run_qc_analysis
RECURSIVE PercqcList(_)
PercqcList(scored) ==
  IF scored = <<>> THEN <<>> ELSE <<Head(scored).botqc>> \o PercqcList(Tail(scored))

\* ket of run_qc_analysis: the messages of all rows, in row order
RECURSIVE KetList(_)
KetList(scored) ==
  IF scored = <<>> THEN <<>> ELSE Head(scored).ket \o KetList(Tail(scored))

\* does the sentinel 1.0 occur in percqc_list
HasSentinel(percqc_list) == \E i \in 1..Len(percqc_list) : percqc_list[i] = 10000

\* step 9 without the cap of the sentinel branch
StationScore_uncapped(percqc_list) ==
  IF percqc_list = <<>> THEN 0 ELSE aggregate_station_score(percqc_list)

\* step 9 of run_qc_analysis: the station score (1/10000 units)
StationScore(percqc_list) ==
  IF percqc_list = <<>> THEN 0
  ELSE IF HasSentinel(percqc_list)
       THEN Min(aggregate_station_score(percqc_list), thresholds.poor_max_score)
  ELSE aggregate_station_score(percqc_list)

\* str(round(float(score), 2)): the score in hundredths
RoundScore(score) == (score + 50) \div 100

\* ', '.join(map(str, details)), '' for an empty list
RECURSIVE ket_str(_)
ket_str(ket) ==
  IF ket = <<>> THEN ""
  ELSE IF Len(ket) = 1 THEN ket[1]
  ELSE ket[1] \o ", " \o ket_str(Tail(ket))

\* the analysis row run_qc_analysis inserts for the detail rows dataqc
AnalysisRowOf(dataqc) ==
  IF dataqc = <<>>
  THEN [percqc |-> 0, kualitas |-> "Mati", keterangan |-> ket_str(<<"Tidak ada data">>)]
  ELSE LET scored == ScoreRows(dataqc)
           score  == StationScore(PercqcList(scored))
       IN  [percqc |-> RoundScore(score), kualitas |-> check_qc(score),
            keterangan |-> ket_str(KetList(scored))]

(* ------------------------------ repository ----------------------------- *)
\* rows of get_qc_details_for_station: the detail rows of one station
\* (components in catalog order, rows of one id in insertion order)
RECURSIVE RowsFrom(_, _, _)
RowsFrom(tbl, kode, i) ==
  IF i > Len(Comps(kode)) THEN <<>>
  ELSE tbl[IdKode(kode, Comps(kode)[i])] \o RowsFrom(tbl, kode, i + 1)

\* get_qc_details: SELECT * FROM stations_qc_details WHERE date = %s AND code = %s
get_qc_details(tbl, kode) == RowsFrom(tbl, kode, 1)

\* number of detail rows of a station for the day
DetailCount(tbl, kode) == Len(get_qc_details(tbl, kode))

\* check_detail: SELECT id ... WHERE id = %s AND date = %s
check_detail(tbl, id) == tbl[id] # <<>>

\* a DELETE that removes nothing: the faulty variant against which the
\* one-row-per-component property of the worker is tested
delete_detail_noop(tbl, id) == tbl

\* delete_detail: DELETE ... WHERE id = %s AND date = %s
delete_detail(tbl, id) == [tbl EXCEPT ![id] = <<>>]

\* insert_detail: INSERT INTO stations_qc_details ...
insert_detail(tbl, id, row) == [tbl EXCEPT ![id] = Append(@, row)]

\* check_analysis: SELECT * ... WHERE date = %s AND code = %s
check_analysis(tbl, kode) == tbl[kode] # <<>>

\* a delete_analysis statement that removes nothing
delete_analysis_noop(tbl, kode) == tbl

\* delete_analysis: DELETE ... WHERE date = %s AND code = %s
delete_analysis(tbl, kode) == [tbl EXCEPT ![kode] = <<>>]

\* insert_analysis: INSERT INTO stations_data_quality ...
insert_analysis(tbl, kode, row) == [tbl EXCEPT ![kode] = Append(@, row)]

\* number of columns of a get_station_info row: 3 for mysql
\* (kode_sensor, lokasi_sensor, sistem_sensor), 4 for postgresql
StationInfoWidth(db) == IF db = "mysql" THEN 3 ELSE 4

(* ---------------------------- run_qc_analysis -------------------------- *)
\* enter run_qc_analysis(repo, db_type, tanggal, station_code) from a caller
CallQc(kode, caller) ==
  /\ qpc' = "flush_check"
  /\ qsta' = kode
  /\ qcaller' = caller
  /\ qrows' = <<>>

\* flush_analysis_result, check_analysis statement
Q_FlushCheck ==
  /\ qpc = "flush_check"
  /\ \E o \in DbOutcomes :
       /\ o = "none" => CanFail
       /\ dbFails' = CountFail(o)
       /\ qpc' = IF o = "ok" /\ check_analysis(analysis, qsta)
                 THEN "flush_delete" ELSE "info"
  /\ UNCHANGED <<cvars, xvars, tvars, wvars, qsta, qcaller, qrows, dvars>>

\* flush_analysis_result, delete_analysis statement
Q_FlushDelete ==
  /\ qpc = "flush_delete"
  /\ \E o \in DbOutcomes :
       /\ o = "none" => CanFail
       /\ dbFails' = CountFail(o)
       /\ analysis' = IF o = "ok" THEN delete_analysis(analysis, qsta) ELSE analysis
  /\ qpc' = "info"
  /\ UNCHANGED <<cvars, xvars, details, wvars, qsta, qcaller, qrows, dvars>>

\* get_station_info and the unpacking network = sta[0], kode = sta[1], tipe = sta[3]
Q_Info ==
  /\ qpc = "info"
  /\ \E o \in DbOutcomes :
       /\ o = "none" => CanFail
       /\ dbFails' = CountFail(o)
       /\ qpc' = IF o = "none" \/ qsta \notin stationsTbl THEN "returned"
                 ELSE IF StationInfoWidth(dbType) < 4 THEN "raised"
                 ELSE "details"
  /\ UNCHANGED <<cvars, xvars, tvars, wvars, qsta, qcaller, qrows, dvars>>

\* get_qc_details_for_station
Q_Details ==
  /\ qpc = "details"
  /\ \E o \in DbOutcomes :
       /\ o = "none" => CanFail
       /\ dbFails' = CountFail(o)
       /\ qrows' = IF o = "ok" THEN get_qc_details(details, qsta) ELSE <<>>
  /\ qpc' = "insert"
  /\ UNCHANGED <<cvars, xvars, tvars, wvars, qsta, qcaller, dvars>>

\* steps 4 to 10 and insert_qc_analysis_result
Q_Insert ==
  /\ qpc = "insert"
  /\ \E o \in DbOutcomes :
       /\ o = "none" => CanFail
       /\ dbFails' = CountFail(o)
       /\ analysis' = IF o = "ok"
                      THEN insert_analysis(analysis, qsta, AnalysisRowOf(qrows))
                      ELSE analysis
  /\ qpc' = "returned"
  /\ UNCHANGED <<cvars, xvars, details, wvars, qsta, qcaller, qrows, dvars>>

QcStep == Q_FlushCheck \/ Q_FlushDelete \/ Q_Info \/ Q_Details \/ Q_Insert

(* ------------------------- process_station_data ------------------------ *)
\* resolved inventory source types: the two the code handles and another value
InventorySources == {"fdsn", "sds"}

\* outcomes of the resource set-up block: it completes or the worker returns
InitOutcomes == {"ok", "return"}

\* the component being processed
CurComp == Comps(wsta)[wi]

\* id_kode of the component being processed
CurId == IdKode(wsta, CurComp)

\* a failed stage that leaves the loop for the grading step without the
\* default write
LogDefault_nowrite(cha, metrics) ==
  /\ wrow' = NoRow
  /\ wpc' = "grade"

\* log_default_and_continue up to its first statement: the default row is
\* pending and check_and_delete_qc_detail comes next
LogDefault(cha, metrics) ==
  /\ wrow' = DefaultRow(cha, metrics)
  /\ wpc' = "check"

\* grading right after the first detail write: the faulty variant against
\* which the write order of the worker is tested
AfterWrite_first(i, n) == "grade"

\* where the worker goes after the detail write of component i of n
AfterWrite(i, n) == IF i < n THEN "acquire" ELSE "grade"

\* the worker is entered with a station tuple; unpacking and resource set-up
W_Start(s, src) ==
  /\ wpc \in {"idle", "done", "raised"}
  /\ qpc = "idle"
  /\ wruns < MaxRuns
  /\ wruns' = wruns + 1
  /\ wsta' = s
  /\ invSource' = src
  /\ wi' = 1
  /\ wfails' = 0
  /\ wcha' = "-"
  /\ wbasic' = NoBasic
  /\ wrow' = NoRow
  /\ \E r \in InitOutcomes : wpc' = IF r = "ok" THEN "acquire" ELSE "done"
  /\ UNCHANGED <<cvars, xvars, tvars, dbFails, qvars, dvars>>

\* seconds of signal.alarm armed around a stage, 0 where none is armed:
\* none around the waveform fetch, 180 around the artifacts, 1200 around PPSD
AlarmSeconds(stage) ==
  IF stage = "persist" THEN 180 ELSE IF stage = "ppsd" THEN 1200 ELSE 0

\* 2. waveforms: a stream, or a timeout, an error or no data; a fetch that
\* does not return is interrupted only if an alarm is armed
W_Acquire ==
  /\ wpc = "acquire"
  /\ IF env[CurId].outcome = "hang" /\ AlarmSeconds("acquire") = 0
     THEN wpc' = "hung" /\ wrow' = NoRow
     ELSE IF env[CurId].outcome \in {"hang", "timeout", "error", "nodata"}
     THEN LogDefault(CurComp, DefaultBasic)
     ELSE wpc' = "inventory" /\ wrow' = NoRow
  /\ wcha' = "-"
  /\ wbasic' = NoBasic
  /\ UNCHANGED <<cvars, xvars, tvars, dbFails, wsta, wi, wruns, wfails,
                 invSource, qvars, dvars>>

\* 2b. inventory: neither 'local' nor an FDSN inventory client raises
\* ConnectionError outside every try block; else an inventory or none
W_Inventory ==
  /\ wpc = "inventory"
  /\ IF invSource \notin {"local", "fdsn"}
     THEN wpc' = "raised" /\ wrow' = wrow
     ELSE IF env[CurId].outcome = "noinv"
          THEN LogDefault(CurComp, DefaultBasic)
          ELSE wpc' = "persist" /\ wrow' = wrow
  /\ UNCHANGED <<cvars, xvars, tvars, dbFails, wsta, wi, wcha, wbasic, wruns,
                 wfails, invSource, qvars, dvars>>

\* 3. save waveform and plot under a 180 s alarm
W_Persist ==
  /\ wpc = "persist"
  /\ IF env[CurId].outcome = "savefail"
     THEN LogDefault(CurComp, DefaultBasic) /\ wcha' = wcha
     ELSE wpc' = "basic" /\ wrow' = wrow /\ wcha' = ChannelCode(CurComp)
  /\ UNCHANGED <<cvars, xvars, tvars, dbFails, wsta, wi, wbasic, wruns,
                 wfails, invSource, qvars, dvars>>

\* 4. basic metrics
W_Basic ==
  /\ wpc = "basic"
  /\ IF env[CurId].outcome = "basicfail"
     THEN LogDefault(wcha, DefaultBasic) /\ wbasic' = wbasic
     ELSE wbasic' = env[CurId].basic /\ wpc' = "ppsd" /\ wrow' = wrow
  /\ UNCHANGED <<cvars, xvars, tvars, dbFails, wsta, wi, wcha, wruns,
                 wfails, invSource, qvars, dvars>>

\* 6, 7, 8. PPSD metrics under a 1200 s alarm: a result, or a timeout, an
\* exception or None, which keep the basic metrics with default PPSD values
W_Ppsd ==
  /\ wpc = "ppsd"
  /\ IF env[CurId].outcome \in {"ppsdtimeout", "ppsderror", "ppsdnone"}
     THEN LogDefault(wcha, wbasic)
     ELSE wrow' = FullRow(wcha, wbasic, env[CurId].final) /\ wpc' = "check"
  /\ UNCHANGED <<cvars, xvars, tvars, dbFails, wsta, wi, wcha, wbasic, wruns,
                 wfails, invSource, qvars, dvars>>

\* check_and_delete_qc_detail, check_detail statement
W_Check ==
  /\ wpc = "check"
  /\ \E o \in DbOutcomes :
       /\ o = "none" => CanFail
       /\ dbFails' = CountFail(o)
       /\ wfails' = IF o = "none" THEN wfails + 1 ELSE wfails
       /\ wpc' = IF o = "ok" /\ check_detail(details, CurId) THEN "delete" ELSE "insert"
  /\ UNCHANGED <<cvars, xvars, tvars, wsta, wi, wcha, wbasic, wrow, wruns,
                 invSource, qvars, dvars>>

\* check_and_delete_qc_detail, delete_detail statement
W_Delete ==
  /\ wpc = "delete"
  /\ \E o \in DbOutcomes :
       /\ o = "none" => CanFail
       /\ dbFails' = CountFail(o)
       /\ wfails' = IF o = "none" THEN wfails + 1 ELSE wfails
       /\ details' = IF o = "ok" THEN delete_detail(details, CurId) ELSE details
  /\ wpc' = "insert"
  /\ UNCHANGED <<cvars, xvars, analysis, wsta, wi, wcha, wbasic, wrow, wruns,
                 invSource, qvars, dvars>>

\* insert_qc_detail / insert_default_qc_detail, then the next component or,
\* after the last one, 9. run_qc_analysis
W_Insert ==
  /\ wpc = "insert"
  /\ \E o \in DbOutcomes :
       /\ o = "none" => CanFail
       /\ dbFails' = CountFail(o)
       /\ wfails' = IF o = "none" THEN wfails + 1 ELSE wfails
       /\ details' = IF o = "ok" THEN insert_detail(details, CurId, wrow) ELSE details
  /\ wpc' = AfterWrite(wi, Len(Comps(wsta)))
  /\ wi' = IF wi < Len(Comps(wsta)) THEN wi + 1 ELSE wi
  /\ wrow' = NoRow
  /\ wcha' = "-"
  /\ wbasic' = NoBasic
  /\ IF AfterWrite(wi, Len(Comps(wsta))) = "grade"
     THEN CallQc(wsta, "worker")
     ELSE UNCHANGED qvars
  /\ UNCHANGED <<cvars, xvars, analysis, wsta, wruns, invSource, dvars>>

\* run_qc_analysis came back (an exception of it is caught and logged); cleanup
W_Finish ==
  /\ wpc = "grade"
  /\ qcaller = "worker"
  /\ qpc \in {"returned", "raised"}
  /\ wpc' = "done"
  /\ qpc' = "idle"
  /\ qcaller' = "-"
  /\ UNCHANGED <<cvars, xvars, tvars, dbFails, wsta, wi, wcha, wbasic, wrow,
                 wruns, wfails, invSource, qsta, qrows, dvars>>

WorkerStep ==
  \/ \E s \in Stations, src \in InventorySources : W_Start(s, src)
  \/ W_Acquire \/ W_Inventory \/ W_Persist \/ W_Basic \/ W_Ppsd
  \/ W_Check \/ W_Delete \/ W_Insert \/ W_Finish

(* ------------------------------ initial state -------------------------- *)
\* what one component yields: the stage that fails (or "ok") and the results
\* of the metric kernels where they are computed
Yield(o, b, f) == [outcome |-> o, basic |-> b, final |-> f]

\* the yields of S1 E, S1 N, S1 Z and, for both S2 Z and the empty component
\* of S3, z2
Scenario(e, n, z, z2) ==
  [id \in Ids |-> IF id = IdKode("S1", "E") THEN e
                  ELSE IF id = IdKode("S1", "N") THEN n
                  ELSE IF id = IdKode("S1", "Z") THEN z
                  ELSE z2]

\* the data scenarios of the model; between them every stage succeeds and fails
Scenarios ==
  { Scenario(Yield("ok", BasicGood, PpsdGood), Yield("ok", BasicGood, PpsdGood),
             Yield("ok", BasicFair, PpsdNoisy), Yield("ok", BasicGood, PpsdGood)),
    Scenario(Yield("nodata", BasicGood, PpsdGood), Yield("timeout", BasicGood, PpsdGood),
             Yield("error", BasicGood, PpsdGood), Yield("nodata", BasicGood, PpsdGood)),
    Scenario(Yield("ok", BasicFair, PpsdNoisy), Yield("ppsdtimeout", BasicGood, PpsdGood),
             Yield("noinv", BasicGood, PpsdGood), Yield("savefail", BasicGood, PpsdGood)),
    Scenario(Yield("basicfail", BasicGood, PpsdGood), Yield("ppsdnone", BasicFair, PpsdGood),
             Yield("ok", BasicGood, PpsdGood), Yield("ppsderror", BasicGood, PpsdGood)) }

\* the scenarios of the worker on its own: those above, and one with a
\* waveform fetch that does not return and with gap counts above 2000
WorkerScenarios ==
  Scenarios \cup
  { Scenario(Yield("ok", BasicGappy, PpsdGood), Yield("hang", BasicGood, PpsdGood),
             Yield("ok", BasicGood, PpsdGood), Yield("ok", BasicGappy, PpsdNoisy)) }

EmptyDetails == [id \in Ids |-> <<>>]
EmptyAnalysis == [s \in Stations |-> <<>>]

WorkerIdle ==
  /\ wpc = "idle" /\ wsta = "-" /\ wi = 0 /\ wcha = "-" /\ wbasic = NoBasic
  /\ wrow = NoRow /\ wruns = 0 /\ wfails = 0 /\ invSource = "-"

QcIdle == qpc = "idle" /\ qsta = "-" /\ qcaller = "-" /\ qrows = <<>>

DayIdle ==
  /\ dpc = "idle" /\ run_trigger = 0 /\ flush = FALSE /\ stations = {}
  /\ network = {} /\ data = {} /\ data_stragglers = <<>> /\ sidx = 0
  /\ passes = 0 /\ flushCalled = FALSE /\ handed = {} /\ raisedBy = "none"

\* a DBPool right after its constructor, no call in progress
PoolIdle ==
  /\ ppc = "idle" /\ pmethod = "-" /\ pcommit = FALSE /\ pstack = <<>>
  /\ pharg = FALSE /\ pattempts = 0 /\ ppool = TRUE /\ pissued = 0
  /\ prebuilds = 0 /\ presult = "-" /\ prelfails = 0 /\ pstart = 0
  /\ psucceeded = FALSE

\* no grading of a row list in progress
GradeIdle ==
  /\ gpc = "idle" /\ gdataqc = <<>> /\ gi = 0 /\ gpercqc = <<>> /\ gket = <<>>
  /\ glog = <<>> /\ gresult = [percqc |-> -1]

\* a RAMManager without a limit that was never asked
RamIdle ==
  /\ rnow = 0 /\ ram_limit = 0 /\ phantom_tasks = <<>> /\ rsubmitted = <<>>
  /\ rsafe = "none" /\ rnext = "-" /\ real_used = 0

\* run_processing_workflow has not been called
FlowIdle ==
  /\ opc = "idle" /\ start_date = 0 /\ end_date = 0 /\ dates_valid = TRUE
  /\ oflush = FALSE /\ current_date = 0 /\ processed = <<>> /\ ofailed = {}

\* no process count being computed
ProcsIdle ==
  /\ npc = "idle" /\ cpu_count = 0 /\ ndata = 0 /\ cpu_number_used = 0
  /\ processes_req = 0

\* the worker function entered on its own, in a worker process that
\* init_worker has set up, with the tables of the day empty
InitWorker ==
  /\ dbType \in {"mysql", "postgresql"}
  /\ stationsTbl = Stations
  /\ env \in WorkerScenarios
  /\ details = EmptyDetails
  /\ analysis = EmptyAnalysis
  /\ dbFails = 0
  /\ WorkerIdle /\ QcIdle /\ DayIdle /\ PoolIdle /\ GradeIdle /\ ProcsIdle /\ RamIdle /\ FlowIdle

NextWorker == WorkerStep \/ QcStep

SpecWorker == InitWorker /\ [][NextWorker]_vars

\* the worker runs on: a stage that can take a step takes it
SpecWorkerLive == InitWorker /\ [][NextWorker]_vars /\ WF_vars(NextWorker)

(* ----------------------------- run_single_day -------------------------- *)
\* a filter test that looks at the station list only: the faulty variant
\* against which the single pass of a filtered run is tested
IsFiltered_stations_only(st, net) == st # {}

\* `stations or network`: a station list or a network filter was given
IsFiltered(st, net) == st # {} \/ net # {}

\* the network clause of the station queries: AND s.network IN (...)
InNetwork(s, net) == net = {} \/ NetworkOf(s) \in net

\* get_station_tuples(stations, network): the tuples of the listed stations
get_station_tuples(tbl, st, net) == {s \in tbl : s \in st /\ InNetwork(s, net)}

\* the station query with HAVING COUNT(code) > 3: three rows do not exclude
get_stations_to_process_over3(tbl, det, net) ==
  {s \in tbl : DetailCount(det, s) <= 3 /\ InNetwork(s, net)}

\* get_stations_to_process(tgl, network): the stations without three detail
\* rows for the day (HAVING COUNT(code) >= 3 excludes the others)
get_stations_to_process(tbl, det, net) ==
  {s \in tbl : DetailCount(det, s) < 3 /\ InNetwork(s, net)}

\* get_straggler_stations(tgl, station_list): codes with detail rows and no
\* analysis row for the day, restricted to the list when one is given
StragglerSet(det, ana, st) ==
  {s \in Stations : DetailCount(det, s) > 0 /\ ana[s] = <<>> /\ (st = {} \/ s \in st)}

\* the straggler rows as the list the loops iterate over
get_straggler_stations(det, ana, st) ==
  LET S == StragglerSet(det, ana, st)
  IN  (IF "S1" \in S THEN <<"S1">> ELSE <<>>) \o (IF "S2" \in S THEN <<"S2">> ELSE <<>>)
        \o (IF "S3" \in S THEN <<"S3">> ELSE <<>>)

\* run_trigger after the completion check of an unfiltered pass
AfterCompletionCheck(rt, a_none, b_none, a, b) ==
  IF a_none \/ b_none THEN 0
  ELSE IF a # {} \/ b # <<>>
       THEN (IF rt + 1 >= 5 THEN 0 ELSE rt + 1)
  ELSE 0

\* the call of pool.map(process_func, data): process_func is
\* partial(process_station_data, tgl=..., time0=..., ...), and
\* process_station_data(sta_tuple) takes one positional parameter, so every
\* task raises TypeError and map re-raises it in run_single_day
PoolMapRaises(d) == d # {}

\* run_single_day is called: set-up, run_trigger, thresholds
D_Enter(f, st, net) ==
  /\ dpc = "idle"
  /\ flush' = f
  /\ stations' = st
  /\ network' = net
  /\ run_trigger' = IF IsFiltered(st, net) THEN -1 ELSE 1
  /\ passes' = 0
  /\ dpc' = "loop"
  /\ UNCHANGED <<cvars, xvars, tvars, dbFails, wvars, qvars, data, data_stragglers, sidx,
                 flushCalled, handed, raisedBy>>

\* the while test and the head of the loop body (DBPool and repository)
D_LoopTop ==
  /\ dpc = "loop"
  /\ IF run_trigger > 0 \/ run_trigger = -1
     THEN /\ passes' = passes + 1
          /\ run_trigger' = IF IsFiltered(stations, network) THEN 0 ELSE run_trigger
          /\ dpc' = IF flush THEN "flush_details" ELSE "query"
     ELSE /\ dpc' = "done"
          /\ UNCHANGED <<passes, run_trigger>>
  /\ UNCHANGED <<cvars, xvars, tvars, dbFails, wvars, qvars, flush, stations, network, data,
                 data_stragglers, sidx, flushCalled, handed, raisedBy>>

\* flush_daily_data, flush_details statement
D_FlushDetails ==
  /\ dpc = "flush_details"
  /\ flushCalled' = TRUE
  /\ \E o \in DbOutcomes :
       /\ o = "none" => CanFail
       /\ dbFails' = CountFail(o)
       /\ details' = IF o = "ok" THEN EmptyDetails ELSE details
  /\ dpc' = "flush_results"
  /\ UNCHANGED <<cvars, xvars, analysis, wvars, qvars, run_trigger, flush, stations, network,
                 data, data_stragglers, sidx, passes, handed, raisedBy>>

\* flush_daily_data, flush_results statement; flush = False afterwards
D_FlushResults ==
  /\ dpc = "flush_results"
  /\ \E o \in DbOutcomes :
       /\ o = "none" => CanFail
       /\ dbFails' = CountFail(o)
       /\ analysis' = IF o = "ok" THEN EmptyAnalysis ELSE analysis
  /\ flush' = FALSE
  /\ dpc' = "query"
  /\ UNCHANGED <<cvars, xvars, details, wvars, qvars, run_trigger, stations, network,
                 data, data_stragglers, sidx, passes, flushCalled, handed, raisedBy>>

\* 3. get data to process; None: break when filtered, else continue
D_Query ==
  /\ dpc = "query"
  /\ \E o \in DbOutcomes :
       /\ o = "none" => CanFail
       /\ dbFails' = CountFail(o)
       /\ IF o = "none"
          THEN /\ dpc' = IF IsFiltered(stations, network) THEN "done" ELSE "loop"
               /\ data' = data
          ELSE /\ dpc' = "dispatch"
               /\ data' = IF stations # {}
                          THEN get_station_tuples(stationsTbl, stations, network)
                          ELSE get_stations_to_process(stationsTbl, details, network)
  /\ UNCHANGED <<cvars, xvars, tvars, wvars, qvars, run_trigger, flush, stations, network,
                 data_stragglers, sidx, passes, flushCalled, handed, raisedBy>>

\* 4. multiprocessing: pool.map over data, skipped when data is empty
D_Dispatch ==
  /\ dpc = "dispatch"
  /\ handed' = handed \cup data
  /\ IF PoolMapRaises(data)
     THEN dpc' = "raised" /\ raisedBy' = "pool.map"
     ELSE dpc' = "strag_query" /\ raisedBy' = raisedBy
  /\ UNCHANGED <<cvars, xvars, tvars, dbFails, wvars, qvars, run_trigger, flush, stations,
                 network, data, data_stragglers, sidx, passes, flushCalled>>

\* 5. get_straggler_stations; None is logged and leaves nothing to iterate
D_StragQuery ==
  /\ dpc = "strag_query"
  /\ \E o \in DbOutcomes :
       /\ o = "none" => CanFail
       /\ dbFails' = CountFail(o)
       /\ data_stragglers' = IF o = "ok"
                             THEN get_straggler_stations(details, analysis, stations)
                             ELSE <<>>
  /\ sidx' = 1
  /\ dpc' = "strag1"
  /\ UNCHANGED <<cvars, xvars, tvars, wvars, qvars, run_trigger, flush, stations, network,
                 data, passes, flushCalled, handed, raisedBy>>

\* the two loops over data_stragglers (the else branch of the None test and
\* the block after it): the next straggler is handed to run_qc_analysis
D_Strag(b) ==
  /\ dpc = b
  /\ IF sidx <= Len(data_stragglers)
     THEN /\ CallQc(data_stragglers[sidx], "day")
          /\ dpc' = IF b = "strag1" THEN "wait1" ELSE "wait2"
          /\ sidx' = sidx
     ELSE /\ dpc' = IF b = "strag1" THEN "strag2" ELSE "final"
          /\ sidx' = 1
          /\ UNCHANGED qvars
  /\ UNCHANGED <<cvars, xvars, tvars, dbFails, wvars, run_trigger, flush, stations, network,
                 data, data_stragglers, passes, flushCalled, handed, raisedBy>>

\* run_qc_analysis came back to the loop; an exception of it is not caught
D_StragRet(b) ==
  /\ dpc = b
  /\ qcaller = "day"
  /\ qpc \in {"returned", "raised"}
  /\ IF qpc = "raised"
     THEN dpc' = "raised" /\ raisedBy' = "run_qc_analysis" /\ sidx' = sidx
     ELSE /\ dpc' = IF b = "wait1" THEN "strag1" ELSE "strag2"
          /\ raisedBy' = raisedBy
          /\ sidx' = sidx + 1
  /\ qpc' = "idle"
  /\ qcaller' = "-"
  /\ UNCHANGED <<cvars, xvars, tvars, dbFails, wvars, qsta, qrows, run_trigger, flush,
                 stations, network, data, data_stragglers, passes, flushCalled,
                 handed>>

\* 6. final completion check
D_Final ==
  /\ dpc = "final"
  /\ IF IsFiltered(stations, network)
     THEN run_trigger' = 0 /\ dbFails' = dbFails
     ELSE \E oa \in DbOutcomes, ob \in DbOutcomes :
            /\ (oa = "none" \/ ob = "none") => CanFail
            /\ (oa = "none" /\ ob = "none") => dbFails + 1 < MaxDbFail
            /\ dbFails' = dbFails + (IF oa = "none" THEN 1 ELSE 0)
                                  + (IF ob = "none" THEN 1 ELSE 0)
            /\ run_trigger' =
                 AfterCompletionCheck(run_trigger, oa = "none", ob = "none",
                   get_stations_to_process(stationsTbl, details, {}),
                   get_straggler_stations(details, analysis, {}))
  /\ dpc' = "loop"
  /\ UNCHANGED <<cvars, xvars, tvars, wvars, qvars, flush, stations, network, data,
                 data_stragglers, sidx, passes, flushCalled, handed, raisedBy>>

\* the arguments of a run: a station list, a network filter, the flush option
StationFilters == {{}, {"S1"}, {"S2"}}
NetworkFilters == {{}, {"IA"}}

DayStep ==
  \/ \E f \in BOOLEAN, st \in StationFilters, net \in NetworkFilters : D_Enter(f, st, net)
  \/ D_LoopTop \/ D_FlushDetails \/ D_FlushResults \/ D_Query
  \/ D_Dispatch \/ D_StragQuery
  \/ D_Strag("strag1") \/ D_Strag("strag2")
  \/ D_StragRet("wait1") \/ D_StragRet("wait2")
  \/ D_Final

\* the detail row a completed worker run leaves for an id under a scenario
WrittenRow(e, id) ==
  LET y == e[id]
      ch == id[2]
  IN  IF y.outcome \in {"timeout", "error", "nodata", "noinv", "savefail"}
        THEN DefaultRow(ch, DefaultBasic)
      ELSE IF y.outcome = "basicfail" THEN DefaultRow(ChannelCode(ch), DefaultBasic)
      ELSE IF y.outcome \in {"ppsdtimeout", "ppsderror", "ppsdnone"}
        THEN DefaultRow(ChannelCode(ch), y.basic)
      ELSE FullRow(ChannelCode(ch), y.basic, y.final)

\* what earlier runs left for a station: nothing, its detail rows only, or
\* its detail rows and its analysis row
Leftovers == {"none", "details", "graded"}

\* the detail table in which station s has the leftover left[s]
DetailsOf(e, left) ==
  [id \in Ids |-> IF left[id[1]] = "none" THEN <<>> ELSE <<WrittenRow(e, id)>>]

\* the analysis table in which station s has the leftover left[s]
AnalysisOf(e, left) ==
  [s \in Stations |-> IF left[s] = "graded"
                      THEN <<AnalysisRowOf(get_qc_details(DetailsOf(e, left), s))>>
                      ELSE <<>>]

\* a day with leftovers of earlier runs in the tables, before run_single_day
InitDay ==
  /\ dbType \in {"mysql", "postgresql"}
  /\ stationsTbl \in {Stations, {"S1"}}
  /\ env \in Scenarios
  /\ \E left \in [Stations -> Leftovers] :
       /\ details = DetailsOf(env, left)
       /\ analysis = AnalysisOf(env, left)
  /\ dbFails = 0
  /\ WorkerIdle /\ QcIdle /\ DayIdle /\ PoolIdle /\ GradeIdle /\ ProcsIdle /\ RamIdle /\ FlowIdle

NextDay == DayStep \/ QcStep

SpecDay == InitDay /\ [][NextDay]_vars

(* ------------------- DBPool.execute and handle_error ------------------- *)
\* default of max_reconnect_attempts in DBPool.__init__
max_reconnect_attempts == 3

\* number of release failures (cursor.close, putconn, conn.close raising)
\* in one call
MaxReleaseFail == 2

\* the two entry points that share handle_error
PoolMethods == {"execute", "executemany"}

\* outcomes of one driver operation: it completes or it raises
DriverOutcomes == {"ok", "fail"}

\* a retry test that allows one attempt too many: the faulty variant against
\* which the retry limit is tested
CanRetry_one_more(attempts) == attempts <= max_reconnect_attempts

\* handle_error: self._reconnect_attempts < self._max_reconnect_attempts
CanRetry(attempts) == attempts < max_reconnect_attempts

\* a frame of execute / executemany: conn is set once a connection was taken,
\* from_pool is the pool it was taken from (the number of rebuilds before),
\* given_back counts the close(conn, cursor) calls made for it so far
ExecuteFrame(c, gen) ==
  [kind |-> "execute", conn |-> c, from_pool |-> gen, given_back |-> 0]

\* a frame of handle_error inside its try block, waiting for the retried method
HandleFrame ==
  [kind |-> "handle_error", conn |-> FALSE, from_pool |-> 0, given_back |-> 0]

\* DBPool.close(conn, cursor): nothing to do without a connection; with one,
\* the release completes or raises
ReleaseOutcomes(c) ==
  IF c /\ prelfails < MaxReleaseFail THEN {"ok", "raise"} ELSE {"ok"}

\* the release-failure counter after a release with outcome r
CountRelease(r) == IF r = "raise" THEN prelfails + 1 ELSE prelfails

\* the top frame of the call stack
TopFrame == pstack[Len(pstack)]

\* the call stack without its top frame
PopFrame == SubSeq(pstack, 1, Len(pstack) - 1)

\* a caller invokes execute or executemany, with or without commit
P_Call(m, c) ==
  /\ ppc \in {"idle", "returned", "raised"}
  /\ pmethod' = m
  /\ pcommit' = c
  /\ pstack' = <<ExecuteFrame(FALSE, 0)>>
  /\ ppc' = "connect"
  /\ pissued' = 0
  /\ prebuilds' = 0
  /\ prelfails' = 0
  /\ presult' = "-"
  /\ pstart' = pattempts
  /\ psucceeded' = FALSE
  /\ UNCHANGED <<besidesPool, pharg, pattempts, ppool>>

\* conn = self._get_connection_from_pool(): ConnectionError without a pool
P_Connect ==
  /\ ppc = "connect"
  /\ \E o \in DriverOutcomes :
       IF ppool /\ o = "ok"
       THEN /\ pstack' = [pstack EXCEPT ![Len(pstack)] = ExecuteFrame(TRUE, prebuilds)]
            /\ ppc' = "statement"
            /\ pharg' = pharg
       ELSE /\ ppc' = "handle"
            /\ pharg' = FALSE
            /\ pstack' = pstack
  /\ UNCHANGED <<besidesPool, pmethod, pcommit,
                 pattempts, ppool, pissued, prebuilds, presult, prelfails, pstart,
                 psucceeded>>

\* cursor.execute(sql, args) / cursor.executemany(sql, args)
P_Statement ==
  /\ ppc = "statement"
  /\ pissued' = pissued + 1
  /\ \E o \in DriverOutcomes :
       IF o = "ok" THEN ppc' = "result" /\ pharg' = pharg
                   ELSE ppc' = "handle" /\ pharg' = TRUE
  /\ UNCHANGED <<besidesPool, pmethod, pcommit,
                 pstack, pattempts, ppool, prebuilds, presult, prelfails, pstart,
                 psucceeded>>

\* conn.commit() and return None, or cursor.fetchall() and return res; the
\* attempt counter is reset
P_Result ==
  /\ ppc = "result"
  /\ \E o \in DriverOutcomes :
       IF o = "ok"
       THEN /\ pattempts' = 0
            /\ presult' = IF pcommit THEN "None" ELSE "rows"
            /\ psucceeded' = TRUE
            /\ ppc' = "return"
            /\ pharg' = pharg
       ELSE /\ ppc' = "handle"
            /\ pharg' = TRUE
            /\ UNCHANGED <<pattempts, presult, psucceeded>>
  /\ UNCHANGED <<besidesPool, pmethod, pcommit,
                 pstack, ppool, pissued, prebuilds, prelfails, pstart>>

\* handle_error(conn, cursor, method, ...): count the attempt and close the
\* bad connection inside the try block, or give up: close and return None;
\* the connection closed is that of the execute frame that called
P_Handle ==
  /\ ppc = "handle"
  /\ \E r \in ReleaseOutcomes(pharg) :
       /\ prelfails' = CountRelease(r)
       /\ IF CanRetry(pattempts)
          THEN /\ pattempts' = pattempts + 1
               /\ ppc' = IF r = "raise" THEN "handle" ELSE "rebuild"
               /\ presult' = presult
          ELSE /\ pattempts' = pattempts
               /\ ppc' = IF r = "raise" THEN "raise" ELSE "return"
               /\ presult' = IF r = "raise" THEN "-" ELSE "None"
  /\ pstack' = IF pharg
                THEN [pstack EXCEPT ![Len(pstack)].given_back = @ + 1]
                ELSE pstack
  /\ pharg' = FALSE
  /\ UNCHANGED <<besidesPool, pmethod, pcommit,
                 ppool, pissued, prebuilds, pstart, psucceeded>>

\* handle_error: the pool is created anew; without a pool ConnectionError is
\* raised and caught, with one the original method is called again
P_Rebuild ==
  /\ ppc = "rebuild"
  /\ \E o \in DriverOutcomes :
       IF o = "ok"
       THEN /\ ppool' = TRUE
            /\ prebuilds' = prebuilds + 1
            /\ pstack' = pstack \o <<HandleFrame, ExecuteFrame(FALSE, 0)>>
            /\ ppc' = "connect"
       ELSE /\ ppool' = FALSE
            /\ ppc' = "handle"
            /\ UNCHANGED <<prebuilds, pstack>>
  /\ UNCHANGED <<besidesPool, pmethod, pcommit,
                 pharg, pattempts, pissued, presult, prelfails, pstart, psucceeded>>

\* finally: self.close(conn, cursor) of execute / executemany; an exception
\* of the release replaces the value being returned
P_Finally ==
  /\ ppc \in {"return", "raise"}
  /\ TopFrame.kind = "execute"
  /\ \E r \in ReleaseOutcomes(TopFrame.conn) :
       LET mode == IF r = "raise" THEN "raise" ELSE ppc
       IN  /\ prelfails' = CountRelease(r)
           /\ presult' = IF mode = "raise" THEN "-" ELSE presult
           /\ ppc' = IF Len(pstack) > 1 THEN mode
                     ELSE IF mode = "raise" THEN "raised" ELSE "returned"
  /\ pstack' = PopFrame
  /\ UNCHANGED <<besidesPool, pmethod, pcommit,
                 pharg, pattempts, ppool, pissued, prebuilds, pstart, psucceeded>>

\* handle_error after the retried method: its value is returned; its
\* exception is caught and handle_error(None, None, ...) is called
P_Retried ==
  /\ ppc \in {"return", "raise"}
  /\ TopFrame.kind = "handle_error"
  /\ ppc' = IF ppc = "return" THEN "return" ELSE "handle"
  /\ pharg' = FALSE
  /\ pstack' = PopFrame
  /\ UNCHANGED <<besidesPool, pmethod, pcommit,
                 pattempts, ppool, pissued, prebuilds, presult, prelfails, pstart,
                 psucceeded>>

PoolStep ==
  \/ \E m \in PoolMethods, c \in BOOLEAN : P_Call(m, c)
  \/ P_Connect \/ P_Statement \/ P_Result \/ P_Handle \/ P_Rebuild
  \/ P_Finally \/ P_Retried

\* a pool that was constructed with a working database, and its callers
InitPool ==
  /\ dbType = "postgresql"
  /\ stationsTbl = Stations
  /\ env = Scenario(Yield("ok", BasicGood, PpsdGood), Yield("ok", BasicGood, PpsdGood),
                    Yield("ok", BasicGood, PpsdGood), Yield("ok", BasicGood, PpsdGood))
  /\ details = EmptyDetails
  /\ analysis = EmptyAnalysis
  /\ dbFails = 0
  /\ WorkerIdle /\ QcIdle /\ DayIdle /\ PoolIdle /\ GradeIdle /\ ProcsIdle /\ RamIdle /\ FlowIdle

NextPool == PoolStep

\* a call that can take a step takes it: the code runs on, and every driver
\* operation of the model completes or raises
SpecPool == InitPool /\ [][NextPool]_vars /\ WF_vars(NextPool)

(* --------------- run_qc_analysis: component loop and score ------------- *)
\* the longest row list graded
MaxRows == 4

\* basic metrics and PPSD results that the weighted formula scores 92 and 88
Basic92 == [rms |-> 500000, ratioamp |-> 101, psdata |-> 10000, ngap |-> 0,
            nover |-> 0, num_spikes |-> 75]
Ppsd92 == [pctH |-> 1000, pctL |-> 0, dcl |-> 800, dcg |-> 0, long_period |-> 10000,
           microseism |-> 10000, short_period |-> 10000]
Basic88 == [rms |-> 500000, ratioamp |-> 101, psdata |-> 10000, ngap |-> 0,
            nover |-> 5, num_spikes |-> 100]

\* metrics outside the ranges of validate_qc_metrics: availability above 100
\* and percentages whose sum is above 100
BasicOver == [rms |-> 500000, ratioamp |-> 101, psdata |-> 15000, ngap |-> 0,
              nover |-> 0, num_spikes |-> 0]
PpsdOver == [pctH |-> 7000, pctL |-> 6000, dcl |-> 800, dcg |-> 0,
             long_period |-> 10000, microseism |-> 10000, short_period |-> 10000]

\* a row whose trailing columns are missing: qc_row[13] raises IndexError
ShortRow(cha) == <<"id", "code", "date", cha>>

\* availabilities around avail_fair and avail_good (hundredths)
AvailValues == {1, 3000, 5999, 6000, 9500, 9699, 9700, 10000}

\* rows of one channel over the availabilities, three basic results and two
\* PPSD results
MetricRows ==
  {qc_row_of(FullRow("BHZ", [b EXCEPT !.psdata = a], p)) :
     a \in AvailValues, b \in {BasicGood, BasicFair, Basic88}, p \in {PpsdGood, PpsdNoisy}}

\* rows of a station: scores 100, 92, 88, the sentinel 1.0, a row that does
\* not parse and two rows that fail validate_qc_metrics
StationRows ==
  {qc_row_of(FullRow("BHZ", BasicGood, PpsdGood)),
   qc_row_of(FullRow("BHN", Basic92, Ppsd92)),
   qc_row_of(FullRow("BHE", Basic88, PpsdGood)),
   qc_row_of(DefaultRow("BHE", BasicGappy)),
   ShortRow("BHN"),
   qc_row_of(FullRow("BHZ", BasicOver, PpsdGood)),
   qc_row_of(FullRow("BHN", BasicGood, PpsdOver))}

\* rows of one channel over the conditions of the three status rules:
\* availability zero or not, dcl dead or not, dcg set or not, rms damaged
\* (0.5), zero or good
RuleRows ==
  {qc_row_of(FullRow("BHZ", [BasicGood EXCEPT !.psdata = a, !.rms = r],
                     [PpsdGood EXCEPT !.dcl = l, !.dcg = g])) :
     a \in {0, 9000}, r \in {50, 0, 500000}, l \in {0, 800}, g \in {0, 1}}

\* the row lists graded: none, one row of MetricRows or RuleRows, or up to
\* MaxRows rows of StationRows
GradeInputs ==
  {<<>>} \cup {<<r>> : r \in MetricRows \cup RuleRows}
         \cup UNION {[1..n -> StationRows] : n \in 1..MaxRows}

\* step 5, postgresql branch: the parse succeeds when the columns up to
\* qc_row[13] exist
Parses(qc_row) == Len(qc_row) >= 14

\* validate_qc_metrics: the issues of a parsed row, in the order of the checks
validate_qc_metrics(m) ==
     WarnIf(m.rms < 0, "Invalid RMS")
  \o WarnIf(m.ratioamp < 0, "Invalid amplitude ratio")
  \o WarnIf(~(0 <= m.avail /\ m.avail <= 10000), "Invalid availability")
  \o WarnIf(m.ngap1 < 0, "Invalid gap count")
  \o WarnIf(m.nover < 0, "Invalid overlap count")
  \o WarnIf(m.num_spikes < 0, "Invalid spike count")
  \o WarnIf(~(0 <= m.pct_above /\ m.pct_above <= 10000), "Invalid pct_above")
  \o WarnIf(~(0 <= m.pct_below /\ m.pct_below <= 10000), "Invalid pct_below")
  \o WarnIf(m.pct_above + m.pct_below > 10000, "Invalid PSD percentages")
  \o WarnIf(m.dcg \notin {0, 1}, "Invalid DCG flag")

\* dataqc is empty: the 'Mati' row is written and the loop is skipped
G_Empty ==
  /\ gpc = "fetched" /\ gdataqc = <<>>
  /\ gresult' = [percqc |-> 0, kualitas |-> "Mati",
                 keterangan |-> ket_str(<<"Tidak ada data">>)]
  /\ gpc' = "done"
  /\ UNCHANGED <<besidesGrade,
                 gdataqc, gi, gpercqc, gket, glog>>

\* one iteration of the component loop (steps 5 to 8): a row that does not
\* parse is logged and skipped; validation issues are logged and the row is
\* scored all the same
G_Row ==
  /\ gpc = "fetched" /\ gi < Len(gdataqc)
  /\ LET qc_row == gdataqc[gi + 1]
     IN  IF ~Parses(qc_row)
         THEN /\ glog' = Append(glog, "Error parsing QC row")
              /\ UNCHANGED <<gpercqc, gket>>
         ELSE LET m == ParseRow(qc_row)
                  c == ComponentScore(m)
              IN  /\ glog' = glog \o validate_qc_metrics(m)
                  /\ gpercqc' = Append(gpercqc, c.botqc)
                  /\ gket' = gket \o c.ket
  /\ gi' = gi + 1
  /\ UNCHANGED <<besidesGrade,
                 gpc, gdataqc, gresult>>

\* steps 9 and 10 after the last row: the station score, its class and the
\* analysis row
G_Aggregate ==
  /\ gpc = "fetched" /\ gdataqc # <<>> /\ gi = Len(gdataqc)
  /\ LET score == StationScore(gpercqc)
     IN  gresult' = [percqc |-> RoundScore(score), kualitas |-> check_qc(score),
                     keterangan |-> ket_str(gket)]
  /\ gpc' = "done"
  /\ UNCHANGED <<besidesGrade,
                 gdataqc, gi, gpercqc, gket, glog>>

GradeStep == G_Empty \/ G_Row \/ G_Aggregate

\* run_qc_analysis right after get_qc_details_for_station returned dataqc
InitGrade ==
  /\ dbType = "postgresql"
  /\ stationsTbl = Stations
  /\ env = Scenario(Yield("ok", BasicGood, PpsdGood), Yield("ok", BasicGood, PpsdGood),
                    Yield("ok", BasicGood, PpsdGood), Yield("ok", BasicGood, PpsdGood))
  /\ details = EmptyDetails
  /\ analysis = EmptyAnalysis
  /\ dbFails = 0
  /\ WorkerIdle /\ QcIdle /\ DayIdle /\ PoolIdle /\ ProcsIdle /\ RamIdle /\ FlowIdle
  /\ gpc = "fetched" /\ gdataqc \in GradeInputs /\ gi = 0 /\ gpercqc = <<>>
  /\ gket = <<>> /\ glog = <<>> /\ gresult = [percqc |-> -1]

NextGrade == GradeStep

SpecGrade == InitGrade /\ [][NextGrade]_vars

(* ------------- run_single_day: the number of worker processes --------- *)
\* max of two integers
Max(a, b) == IF a >= b THEN a ELSE b

\* Python's round(x / base) for integers x >= 0 and base > 0: to the nearest
\* integer, a tie to the even one
RoundHalfEven(x, base) ==
  LET q == x \div base
      r == x % base
  IN  IF 2 * r < base THEN q
      ELSE IF 2 * r > base THEN q + 1
      ELSE IF q % 2 = 0 THEN q ELSE q + 1

\* calculate_process_count with the lower bound applied last
calculate_process_count_floor4(x, base, cpus) ==
  Max(4, Min(Max(1, cpus \div 3), base * RoundHalfEven(x, base)))

\* calculate_process_count(x, base) on a machine with cpus CPUs
calculate_process_count(x, base, cpus) ==
  LET min_value == 4
      max_value == Max(1, cpus \div 3)
      rounded_value == base * RoundHalfEven(x, base)
  IN  Max(1, Min(max_value, Max(min_value, rounded_value)))

\* multiprocessing.cpu_count() of the machines considered
CpuCounts == {1, 2, 4, 6, 11, 12, 16, 24, 48, 96}

\* len(data) of a pass with stations to process
StationCounts == {1, 34, 35, 69, 70, 105, 140, 175, 245, 350, 700, 1400}

\* basic_config['cpu_number_used']: 0 when the key is unset or empty
ConfiguredValues == {0, 1, 2, 4, 8, 16}

\* step 4 of a pass: the configured number when there is one, else the
\* number calculate_process_count derives from the station count
N_Processes ==
  /\ npc = "data"
  /\ processes_req' = IF cpu_number_used # 0 THEN cpu_number_used
                      ELSE calculate_process_count(ndata \div 35, 2, cpu_count)
  /\ npc' = "counted"
  /\ UNCHANGED <<besidesProcs, cpu_count, ndata, cpu_number_used>>

\* multiprocessing.Pool(processes=processes_req) starts the workers
N_StartPool ==
  /\ npc = "counted"
  /\ npc' = "started"
  /\ UNCHANGED <<besidesProcs, cpu_count, ndata, cpu_number_used, processes_req>>

ProcsStep == N_Processes \/ N_StartPool

\* a pass whose station query returned ndata stations
InitProcs ==
  /\ dbType = "postgresql"
  /\ stationsTbl = Stations
  /\ env = Scenario(Yield("ok", BasicGood, PpsdGood), Yield("ok", BasicGood, PpsdGood),
                    Yield("ok", BasicGood, PpsdGood), Yield("ok", BasicGood, PpsdGood))
  /\ details = EmptyDetails
  /\ analysis = EmptyAnalysis
  /\ dbFails = 0
  /\ WorkerIdle /\ QcIdle /\ DayIdle /\ PoolIdle /\ GradeIdle /\ RamIdle /\ FlowIdle
  /\ npc = "data" /\ cpu_count \in CpuCounts /\ ndata \in StationCounts
  /\ cpu_number_used \in ConfiguredValues /\ processes_req = 0

NextProcs == ProcsStep

SpecProcs == InitProcs /\ [][NextProcs]_vars

(* ------------------------------ RAMManager ----------------------------- *)
\* the latest clock value and the largest number of recorded submissions
MaxClock == 3
MaxSubmissions == 2

\* the configuration of the manager, in GB and clock ticks:
\* ram_station_default_gb and ram_allocation_delay
ram_config == [default_station_gb |-> 5, allocation_delay |-> 2]

\* stations_ram_map: the estimate of the stations that have one (GB)
stations_ram_map == [s \in {"NET.BIG", "NET.SMALL"} |-> IF s = "NET.BIG" THEN 15 ELSE 2]

\* the station tuples passed to the manager: two with an estimate, one
\* without, and no tuple at all
RamStations == {"NET.BIG", "NET.SMALL", "NET.UNKNOWN"}
RamNext == RamStations \cup {"none"}

\* psutil.virtual_memory(): the used memory it reports (GB), or an exception
MemReadings ==
  {[ok |-> TRUE, used |-> u] : u \in {0, 5, 18}} \cup {[ok |-> FALSE, used |-> 0]}

\* get_station_estimate: 0 without a tuple, the map's value or the default
get_station_estimate(st) ==
  IF st = "none" THEN 0
  ELSE IF st \in DOMAIN stations_ram_map THEN stations_ram_map[st]
  ELSE ram_config.default_station_gb

\* an entry recorded at start that also counts when its age equals the delay
StillCounts_inclusive(now, start) == now - start <= ram_config.allocation_delay

\* the filter of _update_phantom_load: an entry recorded at start counts at now
StillCounts(now, start) == now - start < ram_config.allocation_delay

\* _update_phantom_load: the entries that have not expired
update_phantom_load(tasks, now) == SelectSeq(tasks, LAMBDA t : StillCounts(now, t[1]))

\* sum(t[1] for t in phantom_tasks)
RECURSIVE PhantomSum(_)
PhantomSum(tasks) ==
  IF tasks = <<>> THEN 0 ELSE Head(tasks)[2] + PhantomSum(Tail(tasks))

\* time.time() advances
R_Tick ==
  /\ rnow < MaxClock
  /\ rnow' = rnow + 1
  /\ rsafe' = "none" /\ rnext' = "-"
  /\ UNCHANGED <<besidesRam, ram_limit, phantom_tasks, rsubmitted, real_used>>

\* check_ram_metrics(next_station_tuple): without a limit the answer is
\* "No Limit"; else the expired entries are dropped and the projection
\* real + phantom + estimate is compared with the limit.  A psutil call that
\* raises counts as 0 used bytes.
R_Check(st, mem) ==
  /\ rnext' = st
  /\ IF ram_limit <= 0
     THEN /\ rsafe' = "safe"
          /\ UNCHANGED <<phantom_tasks, real_used>>
     ELSE LET kept      == update_phantom_load(phantom_tasks, rnow)
              used      == IF mem.ok THEN mem.used ELSE 0
              projected == used + PhantomSum(kept) + get_station_estimate(st)
          IN  /\ phantom_tasks' = kept
              /\ real_used' = used
              /\ rsafe' = IF projected < ram_limit THEN "safe" ELSE "full"
  /\ UNCHANGED <<besidesRam, rnow, ram_limit, rsubmitted>>

\* record_submission(station_tuple): the estimate is appended with the
\* current time (rsubmitted keeps every submission ever recorded)
R_Record(st) ==
  /\ Len(rsubmitted) < MaxSubmissions
  /\ phantom_tasks' = Append(phantom_tasks, <<rnow, get_station_estimate(st)>>)
  /\ rsubmitted' = Append(rsubmitted, <<rnow, get_station_estimate(st)>>)
  /\ rsafe' = "none" /\ rnext' = "-"
  /\ UNCHANGED <<besidesRam, rnow, ram_limit, real_used>>

RamStep ==
  \/ R_Tick
  \/ \E st \in RamNext, mem \in MemReadings : R_Check(st, mem)
  \/ \E st \in RamStations : R_Record(st)

\* a manager right after its constructor, with a limit of 20 GB or none
InitRam ==
  /\ dbType = "postgresql"
  /\ stationsTbl = Stations
  /\ env = Scenario(Yield("ok", BasicGood, PpsdGood), Yield("ok", BasicGood, PpsdGood),
                    Yield("ok", BasicGood, PpsdGood), Yield("ok", BasicGood, PpsdGood))
  /\ details = EmptyDetails
  /\ analysis = EmptyAnalysis
  /\ dbFails = 0
  /\ WorkerIdle /\ QcIdle /\ DayIdle /\ PoolIdle /\ GradeIdle /\ ProcsIdle /\ FlowIdle
  /\ rnow = 0 /\ ram_limit \in {0, 20} /\ phantom_tasks = <<>> /\ rsubmitted = <<>>
  /\ rsafe = "none" /\ rnext = "-" /\ real_used = 0

NextRam == RamStep

SpecRam == InitRam /\ [][NextRam]_vars

(* ------------------------ run_processing_workflow ---------------------- *)
\* the dates of the model are the days 1..MaxDates
MaxDates == 4

\* run_single_day returns or raises an Exception
DayOutcomes == {"ok", "raises"}

\* a date loop that lets an exception of run_single_day end the workflow
AfterDay_propagate(o) == IF o = "raises" THEN "raised" ELSE "loop"

\* the try/except around run_single_day: the exception is logged and the
\* loop goes on with the next date
AfterDay(o) == "loop"

\* strptime of both date strings and the order test
O_Validate ==
  /\ opc = "called"
  /\ IF ~dates_valid \/ start_date > end_date
     THEN opc' = "returned" /\ current_date' = current_date
     ELSE opc' = "loop" /\ current_date' = start_date
  /\ UNCHANGED <<besidesFlow, start_date, end_date, dates_valid, oflush, processed,
                 ofailed>>

\* one iteration of the date loop: run_single_day(current_date) with
\* do_flush = flush and start_date == end_date, then the next day
O_Day(o) ==
  /\ opc = "loop" /\ current_date <= end_date
  /\ processed' = Append(processed, [date |-> current_date,
                                     flush |-> oflush /\ start_date = end_date])
  /\ ofailed' = IF o = "raises" THEN ofailed \cup {current_date} ELSE ofailed
  /\ current_date' = current_date + 1
  /\ opc' = AfterDay(o)
  /\ UNCHANGED <<besidesFlow, start_date, end_date, dates_valid, oflush>>

\* the loop test fails: "Main Workflow Finished"
O_Finish ==
  /\ opc = "loop" /\ current_date > end_date
  /\ opc' = "finished"
  /\ UNCHANGED <<besidesFlow, start_date, end_date, dates_valid, oflush, current_date,
                 processed, ofailed>>

FlowStep == O_Validate \/ (\E o \in DayOutcomes : O_Day(o)) \/ O_Finish

\* run_processing_workflow is called with two date strings, well-formed or
\* not, and the flush option
InitFlow ==
  /\ dbType = "postgresql"
  /\ stationsTbl = Stations
  /\ env = Scenario(Yield("ok", BasicGood, PpsdGood), Yield("ok", BasicGood, PpsdGood),
                    Yield("ok", BasicGood, PpsdGood), Yield("ok", BasicGood, PpsdGood))
  /\ details = EmptyDetails
  /\ analysis = EmptyAnalysis
  /\ dbFails = 0
  /\ WorkerIdle /\ QcIdle /\ DayIdle /\ PoolIdle /\ GradeIdle /\ ProcsIdle /\ RamIdle
  /\ opc = "called" /\ start_date \in 1..MaxDates /\ end_date \in 1..MaxDates
  /\ dates_valid \in BOOLEAN /\ oflush \in BOOLEAN /\ current_date = 0
  /\ processed = <<>> /\ ofailed = {}

NextFlow == FlowStep

SpecFlow == InitFlow /\ [][NextFlow]_vars

(* ------------------------------ properties ----------------------------- *)
\* the station has one detail row for each of its components
OneRowPerComponent(s) ==
  \A i \in 1..Len(Comps(s)) : Len(details[IdKode(s, Comps(s)[i])]) = 1

\* the detail row of component i of station s is present
DetailPresent(s, i) == details[IdKode(s, Comps(s)[i])] # <<>>

\* every row of the station for the day is present / absent
AllPresent(s) == analysis[s] # <<>> /\ \A i \in 1..Len(Comps(s)) : DetailPresent(s, i)
AllAbsent(s) == analysis[s] = <<>> /\ \A i \in 1..Len(Comps(s)) : ~DetailPresent(s, i)

\* the rows present are a prefix of the write order of the worker: detail
\* rows in component order, then the analysis row
WrittenInOrder(s) ==
  /\ \A i \in 2..Len(Comps(s)) : DetailPresent(s, i) => DetailPresent(s, i - 1)
  /\ analysis[s] # <<>> => \A i \in 1..Len(Comps(s)) : DetailPresent(s, i)

\* run_single_day is over: it returned or an exception left it
DayOver == dpc \in {"done", "raised"}

\* C1: the worker never lets an exception escape to the orchestrator, so
\* the pool.map call of run_single_day completes without raising.
C1_PoolMapCompletes == raisedBy # "pool.map"

\* C2: after run_single_day finishes, every station that was handed to a
\* worker has exactly one analysis row for the day.
C2_HandedStationsGraded == DayOver => \A s \in handed : Len(analysis[s]) = 1

\* C3: in an unfiltered run the body of the processing loop is entered at
\* most 5 times, whatever the database returns (rows, empty lists or None).
C3_AtMostFivePasses == (stations = {} /\ network = {}) => passes <= 5

C5_AtMostOneRowPerId == \A id \in Ids : Len(details[id]) <= 1

\* C6 as claimed: the detail rows and the analysis row of a station are
\* written atomically: in no state are some of them present and others absent.
C6_AllOrNothing == \A s \in Stations : AllPresent(s) \/ AllAbsent(s)

\* C6 as amended: the rows are committed one call at a time, the detail rows
\* in component order and the analysis row last: while a worker processes a
\* station for the first time and no database call has failed, the rows
\* present are a prefix of that order, and the analysis row is present only
\* when every detail row is.
C6_RowsWrittenInOrder ==
  (wruns <= 1 /\ dbFails = 0) => \A s \in Stations : WrittenInOrder(s)

\* C6 witness: the first two detail rows of a station are committed and the
\* third detail row and the analysis row are not
C6_Witness ==
  /\ wruns = 1 /\ dbFails = 0 /\ wsta = "S1" /\ wi = 3 /\ wpc = "acquire"
  /\ DetailPresent("S1", 1) /\ DetailPresent("S1", 2) /\ ~DetailPresent("S1", 3)
  /\ analysis["S1"] = <<>>

\* C7: a call of run_qc_analysis for a station that has detail rows (and a
\* row in the stations table, with no database call failing) leaves exactly
\* one analysis row, the one computed from the detail rows, however often it
\* is called in succession.
C7_OneAnalysisRowAfterCall ==
  (/\ qpc \in {"returned", "raised"}
   /\ dbFails = 0
   /\ qsta \in stationsTbl
   /\ DetailCount(details, qsta) > 0)
  => /\ Len(analysis[qsta]) = 1
     /\ analysis[qsta][1] = AnalysisRowOf(get_qc_details(details, qsta))

C10_FilteredRunNeverFlushes == (stations # {} \/ network # {}) => ~flushCalled

\* a call of execute / executemany is over: it returned or it raised
CallOver == ppc \in {"returned", "raised"}

\* the call in progress started with the attempt counter at 0 and none of
\* its statements has completed
KeepsFailing == ppc # "idle" /\ pstart = 0 /\ ~psucceeded

\* C11: in one execute call that starts with the attempt counter at 0 and
\* whose statement keeps failing, the statement is issued at most
\* 1 + max_reconnect_attempts times, every re-issue comes after a rebuild of
\* the pool, and the call ends.
C11_BoundedRetries ==
  /\ [](KeepsFailing => (/\ pissued <= 1 + max_reconnect_attempts
                         /\ pissued <= 1 + prebuilds))
  /\ ((ppc = "connect" /\ pstart = 0) ~> (CallOver \/ psucceeded))

\* C11 witness: a call of execute issued the statement four times, with
\* three rebuilds of the pool, and returned None
C11_Witness ==
  /\ pmethod = "execute" /\ ppc = "returned" /\ presult = "None"
  /\ pstart = 0 /\ ~psucceeded
  /\ pissued = 1 + max_reconnect_attempts /\ prebuilds = max_reconnect_attempts

\* C12: execute and executemany never raise to the caller, whatever the
\* connection, statement, commit, release and rebuild failures: every call
\* returns.
C12_CallsNeverRaise == ppc # "raised"

\* C13: the waveform fetch is guarded by a timeout: a worker that starts the
\* fetch for a component always goes on, through a default row if the fetch
\* does not return, and reaches the end of the station.
C13_WorkerReachesDone == (wpc = "acquire") ~> (wpc \in {"done", "raised"})

\* C14: when the gap count of a component is above 2000 the worker skips the
\* PPSD step, and the detail row of the component carries the default
\* PPSD-derived fields.
C14_HighGapSkipsPpsd ==
  /\ wpc = "ppsd" => wbasic.ngap <= 2000
  /\ \A id \in Ids : \A i \in 1..Len(details[id]) :
       details[id][i].num_gap > 2000
         => details[id][i] = DefaultRow(details[id][i].channel, BasicGappy)

\* C15: a station whose channel list is empty yields three default-metric
\* detail rows for the day: when its worker reaches the grading step with no
\* failed detail write, the station has three rows, each with default metrics.
C15_NoChannelsThreeDefaultRows ==
  (wpc = "grade" /\ wsta = "S3" /\ wfails = 0)
  => /\ DetailCount(details, "S3") = 3
     /\ \A i \in 1..DetailCount(details, "S3") :
          LET r == get_qc_details(details, "S3")[i]
          IN  r = DefaultRow(r.channel, DefaultBasic)
\* C16: when a channel of the station scored the sentinel 1.0, the score of
\* the analysis row is at most poor_max_score, whatever the other channels
\* scored
C16_SentinelCapsStationScore ==
  (gpc = "done" /\ HasSentinel(gpercqc))
    => gresult.percqc * 100 <= thresholds.poor_max_score

\* C16 witness: a graded station with a sentinel channel whose 25th
\* percentile lies above poor_max_score and whose row carries the cap
C16_Witness ==
  /\ gpc = "done" /\ HasSentinel(gpercqc)
  /\ aggregate_station_score(gpercqc) > thresholds.poor_max_score
  /\ gresult.percqc * 100 = thresholds.poor_max_score

\* the component loop ended with the per-channel scores 92, 88 and 1.0
Scores_92_88_1 == gpc = "done" /\ gpercqc = <<920000, 880000, 10000>>

\* C17 as stated: per-channel scores [92, 88, 1.0] give the station score 59
\* and the class Buruk
C17_ExampleScore59 ==
  Scores_92_88_1 => gresult.percqc = 5900 /\ gresult.kualitas = "Buruk"

\* C17: per-channel scores [92, 88, 1.0] give the station score
\* min(percentile_25, 59) = min(44.5, 59) = 44.5 and the class Buruk
C17_ExampleScore44_5 ==
  Scores_92_88_1 => gresult.percqc = 4450 /\ gresult.kualitas = "Buruk"

\* C17 witness: a station graded from the scores [92, 88, 1.0]
C17_Witness == Scores_92_88_1 /\ gresult.percqc = 4450

\* a row that parses and passes every range check of validate_qc_metrics
WellFormed(qc_row) ==
  Parses(qc_row) /\ validate_qc_metrics(ParseRow(qc_row)) = <<>>

\* the per-channel scores of the well-formed rows, in row order
RECURSIVE WellFormedScores(_)
WellFormedScores(rows) ==
  IF rows = <<>> THEN <<>>
  ELSE (IF WellFormed(Head(rows))
        THEN <<ComponentScore(ParseRow(Head(rows))).botqc>> ELSE <<>>)
       \o WellFormedScores(Tail(rows))

\* C18: when grading has written the analysis row, every malformed row (one
\* that does not parse or fails a range check) was logged and the scores that
\* entered the percentile are those of the well-formed rows only
C18_MalformedRowsExcluded ==
  (gpc = "done" /\ gdataqc # <<>>)
    => /\ gpercqc = WellFormedScores(gdataqc)
       /\ (\E i \in 1..Len(gdataqc) : ~WellFormed(gdataqc[i])) => glog # <<>>

\* the row takes the last branch of step 8, the weighted formula: it is not
\* dead, not unresponsive and not damaged
UsesWeighted(m) ==
  /\ m.avail > 0
  /\ ~(m.dcg = 1 \/ m.dcl <= thresholds.dcl_dead)
  /\ ~(m.rms < thresholds.rms_damaged_max /\ m.rms > 0)

\* the loop has just scored row gi by the weighted formula
LastRowWeighted ==
  gi >= 1 /\ Parses(gdataqc[gi]) /\ UsesWeighted(ParseRow(gdataqc[gi]))

RoundedToEven(n) == 2 * RoundHalfEven(n \div 35, 2)

\* C20 as stated: the number of worker processes of a pass is
\* max(4, min(configuredCPU, stationCount/35 rounded to even, cpu/3)), the
\* configured value taking part in the minimum when there is one, and so it
\* is never below 4
C20_ProcessCountAtLeast4 ==
  npc = "started"
    => LET m == Min(RoundedToEven(ndata), cpu_count \div 3)
           c == IF cpu_number_used # 0 THEN Min(cpu_number_used, m) ELSE m
       IN  /\ processes_req = Max(4, c)
           /\ processes_req >= 4

\* C20: the number of worker processes of a pass is the configured value when
\* one is configured; otherwise it is the station count / 35 rounded to even,
\* raised to 4 and then limited to max(1, cpu / 3), so it is below 4 exactly
\* when cpu / 3 is
C20_ProcessCount ==
  npc = "started"
    => LET cap == IF cpu_count \div 3 >= 1 THEN cpu_count \div 3 ELSE 1
           r   == RoundedToEven(ndata)
       IN  IF cpu_number_used # 0 THEN processes_req = cpu_number_used
           ELSE IF cap < 4 THEN processes_req = cap
           ELSE IF r < 4 THEN processes_req = 4
           ELSE IF r > cap THEN processes_req = cap
           ELSE processes_req = r

\* C20 witness: a pass on a machine with fewer than 12 CPUs and no configured
\* number starts fewer than 4 worker processes
C20_Witness ==
  /\ npc = "started" /\ cpu_number_used = 0 /\ cpu_count \div 3 < 4
  /\ processes_req = cpu_count \div 3 /\ processes_req >= 1

\* the estimates of the submissions recorded less than allocation_delay ago
RecentLoad ==
  PhantomSum(SelectSeq(rsubmitted,
                       LAMBDA t : rnow - t[1] < ram_config.allocation_delay))

\* C21: with a limit set, a check answers "safe" exactly when the used memory
\* plus the estimates of the submissions recorded less than allocation_delay
\* ago plus the station's estimate is below the limit; after the check no
\* entry as old as allocation_delay is left in the phantom list
C21_SafeIffBelowLimit ==
  (ram_limit > 0 /\ rsafe # "none")
    => /\ (rsafe = "safe")
            <=> (real_used + RecentLoad + get_station_estimate(rnext) < ram_limit)
       /\ \A i \in 1..Len(phantom_tasks) :
            rnow - phantom_tasks[i][1] < ram_config.allocation_delay

\* C21 witness: a station is reported safe although the estimates of all the
\* submissions ever recorded would exceed the limit, because one has expired
\* while another still counts
C21_Witness ==
  /\ ram_limit > 0 /\ rsafe = "safe" /\ rnext \in RamStations
  /\ real_used + PhantomSum(rsubmitted) + get_station_estimate(rnext) >= ram_limit
  /\ RecentLoad > 0

\* an unfiltered pass between its station query and its completion check
UnfilteredPassQueried ==
  /\ stations = {} /\ network = {}
  /\ dpc \in {"dispatch", "strag_query", "strag1", "wait1", "strag2", "wait2", "final"}

\* C22: in an unfiltered pass a station that has three or more detail rows
\* for the date is not among the stations handed to the workers, and from the
\* station query on the pass does not change the detail rows of that station
C22_CompleteStationsLeftAlone ==
  /\ [](UnfilteredPassQueried =>
          \A s \in Stations : DetailCount(details, s) >= 3 => s \notin data)
  /\ [][UnfilteredPassQueried =>
          \A s \in Stations :
            DetailCount(details, s) >= 3 =>
              \A i \in 1..Len(Comps(s)) :
                details'[IdKode(s, Comps(s)[i])] = details[IdKode(s, Comps(s)[i])]]_vars

\* C22 witness: an unfiltered pass hands stations to the workers while a
\* station with three detail rows is left out
C22_Witness ==
  /\ UnfilteredPassQueried /\ dpc = "dispatch" /\ data # {}
  /\ \E s \in stationsTbl : DetailCount(details, s) >= 3 /\ s \notin data

\* C23: the score of a channel is decided by the first rule that matches,
\* in the order dead (avail <= 0: score 0, 'Mati'), unresponsive (dcg = 1 or
\* dcl <= dcl_dead: score 1, 'tidak merespon getaran'), damaged
\* (0 < rms < rms_damaged_max: score 1, 'Rusak'), weighted formula; the first
\* three append their one message and no warning, the last appends the
\* warnings only
C23_FirstMatchingRule ==
  (gi = 1 /\ Parses(gdataqc[1])) =>
    LET m == ParseRow(gdataqc[1])
        avail == IF m.avail >= 10000 THEN 10000 ELSE m.avail
        ngap1 == IF m.avail >= 10000 THEN 0 ELSE m.ngap1
    IN  IF avail <= 0
          THEN gpercqc = <<0>> /\ gket = <<"Komponen " \o m.komp \o " Mati">>
        ELSE IF m.dcg = 1 \/ m.dcl <= thresholds.dcl_dead
          THEN /\ gpercqc = <<10000>>
               /\ gket = <<"Komponen " \o m.komp \o " tidak merespon getaran">>
        ELSE IF 0 < m.rms /\ m.rms < thresholds.rms_damaged_max
          THEN gpercqc = <<10000>> /\ gket = <<"Komponen " \o m.komp \o " Rusak">>
        ELSE /\ Len(gpercqc) = 1
             /\ gket = determine_warning(m.komp, avail, m.pct_below, m.pct_above,
                                         ngap1, m.nover, m.num_spikes)

\* C23 witness: a row that is both unresponsive and damaged, and not dead,
\* is scored by the unresponsive rule
C23_Witness ==
  /\ gi = 1 /\ Parses(gdataqc[1])
  /\ LET m == ParseRow(gdataqc[1])
     IN  /\ m.avail > 0 /\ m.dcl <= thresholds.dcl_dead
         /\ 0 < m.rms /\ m.rms < thresholds.rms_damaged_max
  /\ gpercqc = <<10000>>
  /\ gket = <<"Komponen BHZ tidak merespon getaran">>

\* C24: in a run of the worker the component index advances only through
\* the detail-row write of the current component, the grading step is entered
\* only from the write of the last component, and once grading has started
\* the run writes no detail row
C24_GradeAfterAllWrites ==
  /\ [][(wi' # wi /\ wpc \notin {"idle", "done", "raised"})
          => (wpc = "insert" /\ wi' = wi + 1)]_vars
  /\ [][(wpc' = "grade" /\ wpc # "grade")
          => (wpc = "insert" /\ wi = Len(Comps(wsta)))]_vars
  /\ [][wpc = "grade" => details' = details]_vars

\* C24 witness: grading of S1 has started with a full row for E and default
\* rows for N and Z in place
C24_Witness ==
  /\ wpc = "grade" /\ wsta = "S1" /\ wi = 3 /\ OneRowPerComponent("S1")
  /\ details[IdKode("S1", "E")][1].lp_percentage # 0
  /\ details[IdKode("S1", "N")][1].lp_percentage = 0
  /\ details[IdKode("S1", "Z")][1].lp_percentage = 0

\* the workflow has ended
FlowOver == opc \in {"returned", "finished", "raised"}

\* C25: the dates handed to run_single_day are start_date, start_date + 1,
\* ... in this order, each once; when the workflow has ended they are all the
\* dates up to end_date, whichever of them raised, and none when start_date is
\* after end_date
C25_EveryDateOnceInOrder ==
  /\ \A i \in 1..Len(processed) : processed[i].date = start_date + i - 1
  /\ (FlowOver /\ dates_valid) =>
       Len(processed) = (IF start_date > end_date THEN 0
                         ELSE end_date - start_date + 1)

\* C25 witness: the workflow finished a range of several dates although the
\* run of its first date raised
C25_Witness ==
  /\ opc = "finished" /\ start_date < end_date /\ start_date \in ofailed
  /\ processed[Len(processed)].date = end_date

\* the call that is over started with the attempt counter exhausted and none
\* of its statements completed
FailedAfterExhaustion ==
  CallOver /\ pstart = max_reconnect_attempts /\ ~psucceeded

\* C26: the attempt counter belongs to the pool: it is 0 when a call returns
\* its rows, and a failing call that starts with the counter exhausted returns
\* None without a rebuild of the pool and without issuing the statement again
C26_CounterPerPool ==
  /\ (ppc = "returned" /\ presult = "rows") => pattempts = 0
  /\ FailedAfterExhaustion =>
       /\ ppc = "returned" /\ presult = "None"
       /\ prebuilds = 0 /\ pissued <= 1

\* C27: when execute (or executemany) leaves with a connection it obtained,
\* the close in its finally block is the only time the connection is given
\* back, and the pool is still the one the connection was obtained from
C27_ConnectionGivenBackOnce ==
  [][(Len(pstack') < Len(pstack) /\ TopFrame.kind = "execute" /\ TopFrame.conn)
       => (TopFrame.given_back = 0 /\ TopFrame.from_pool = prebuilds)]_vars

\* the PPSD step of the component timed out, failed or returned nothing, and
\* its basic metrics report an availability above 0
PpsdFailedWithData(id) ==
  /\ env[id].outcome \in {"ppsdtimeout", "ppsderror", "ppsdnone"}
  /\ env[id].basic.psdata > 0

\* the worker's grading of qsta has returned, no database call has failed,
\* and the analysis row is there
WorkerGraded ==
  /\ qpc = "returned" /\ qcaller = "worker" /\ dbFails = 0
  /\ analysis[qsta] # <<>>

\* the rows the grading read hold a row stored for id
ReadRowOf(id) ==
  \E i \in 1..Len(qrows), j \in 1..Len(details[id]) : qrows[i] = details[id][j]

\* C28: a component whose PPSD step failed and whose availability is above 0
\* is stored with linear_dead_channel = 0 and its row is graded with the
\* sentinel 1.0; an analysis row written from rows that hold such a row has a
\* score of at most poor_max_score
C28_PpsdFailureGivesSentinel ==
  /\ [](\A id \in Ids : \A j \in 1..Len(details[id]) :
          PpsdFailedWithData(id) =>
            /\ details[id][j].linear_dead_channel = 0
            /\ ComponentScore(ParseRow(qc_row_of(details[id][j]))).botqc = 10000)
  /\ [][(qpc = "insert" /\ analysis'[qsta] # analysis[qsta]) =>
          \A i \in 1..Len(Comps(qsta)) :
            LET id == IdKode(qsta, Comps(qsta)[i])
            IN  (PpsdFailedWithData(id) /\ ReadRowOf(id)) =>
                  analysis'[qsta][Len(analysis'[qsta])].percqc * 100
                    <= thresholds.poor_max_score]_vars

\* C28 witness: S2, whose only component lost its PPSD step, is graded 1.0
C28_Witness ==
  /\ WorkerGraded /\ qsta = "S2" /\ PpsdFailedWithData(IdKode("S2", "Z"))
  /\ analysis["S2"][1].percqc = 100 /\ analysis["S2"][1].kualitas = "Buruk"

\* an unfiltered day whose stations table holds a station with fewer than
\* three components
UnfilteredWithSmallStation ==
  /\ stations = {} /\ network = {}
  /\ \E s \in stationsTbl : Len(Comps(s)) < 3

\* C29: a station with fewer than three components is listed as unprocessed
\* after every pass, so an unfiltered day that contains one is handed to the
\* workers on every pass and leaves the loop only through the pass limit:
\* when the day is over no exception has ended it and the run_trigger
\* increments up to the limit of 5 have taken at least four passes
C29_LeavesThroughPassLimit ==
  (DayOver /\ UnfilteredWithSmallStation) => (raisedBy = "none" /\ passes >= 4)

\* run_qc_analysis stops at the station info lookup: no row, or None
EarlyStop == qpc = "info" /\ qpc' = "returned"

\* after the step the station has no analysis row and, when it has detail
\* rows, the straggler query of the run lists it
LeftAsStraggler ==
  /\ analysis'[qsta] = <<>>
  /\ DetailCount(details', qsta) > 0 =>
       \E i \in 1..Len(get_straggler_stations(details', analysis', stations')) :
         get_straggler_stations(details', analysis', stations')[i] = qsta

====
